---- MODULE Spec2Model ----
(***************************************************************************)
(* LabByteAllocator (arceos/labs/lab_allocator): a bitmap allocator over   *)
(* 256-byte blocks with alternating leftmost-fit / rightmost-fit.          *)
(*                                                                         *)
(* A machine word (usize, 64 bits) is the set of the positions of its set  *)
(* bits, position 0 being the most significant bit: bit position p of the  *)
(* bitmap lives at position p % 64 of word p / 64, which is how            *)
(* Bitmap::apply and the decoder (leading_ones / leading_zeros) number     *)
(* them.  `w >> n` therefore adds n to every position and `w << n`         *)
(* subtracts n, dropping what leaves the word.                             *)
(*                                                                         *)
(* Addresses and byte counters are small naturals; avail_bytes is kept as  *)
(* the signed representative of the usize it stands for, so a negative     *)
(* value is a counter that wrapped below zero (2^64 + avail_bytes).        *)
(***************************************************************************)
EXTENDS Integers, Sequences, FiniteSets, TLC

\* ---------------------------------------------------------------- constants
BLOCK_SIZE == 256
PAGE_SIZE == 4096
USIZE_BITS == 64
MAX_LEN == 64
WORD_BYTES == 8
FOOTER_SIZE == 32
FOOTER_ALIGN == 8

\* ------------------------------------------------------------------- bounds
MaxAllocCalls == 3
MaxLive == 2
MaxMisuse == 1
MaxOps == 2
MaxEarlyCalls == 3
MaxInserts == 5

\* ------------------------------------------------------------ machine words
WordIdx == 0 .. (USIZE_BITS - 1)
USIZE_MAX == WordIdx
Zero == {}

Not(w) == WordIdx \ w
Shr(w, n) == {i + n : i \in w} \cap WordIdx
Shl(w, n) == {i - n : i \in w} \cap WordIdx

Min(a, b) == IF a < b THEN a ELSE b
DivCeil(a, b) == (a + b - 1) \div b

\* leading_ones / leading_zeros of a word: count from the top bit down
RECURSIVE OnesFrom(_, _)
OnesFrom(w, n) == IF n < USIZE_BITS /\ n \in w THEN OnesFrom(w, n + 1) ELSE n
LeadingOnes(w) == OnesFrom(w, 0)

RECURSIVE ZerosFrom(_, _)
ZerosFrom(w, n) == IF n < USIZE_BITS /\ n \notin w THEN ZerosFrom(w, n + 1) ELSE n
LeadingZeros(w) == ZerosFrom(w, 0)

\* --------------------------------------------------------- address rounding
ceil_addr(n, align) == ((n + align - 1) \div align) * align
floor_addr(n, align) == (n \div align) * align
bytes_between(start, end) == end - start

\* ------------------------------------------------------------------- Bitmap
\* The closure handed to apply: set is |b, m| b | m, unset is |b, m| b & !m.
BitOp(op, b, m) == IF op = "set" THEN b \cup m ELSE b \ m

\* self.bits[i] = f(self.bits[i], m); an index past the slice panics.
ApplyWord(r, i, op, m) ==
    IF r.panic THEN r
    ELSE IF i + 1 > Len(r.bits) THEN [r EXCEPT !.panic = TRUE]
    ELSE [r EXCEPT !.bits[i + 1] = BitOp(op, r.bits[i + 1], m)]

\* !(usize::MAX >> len) for 0 < len <= 64.  A shift by the full word width
\* overflows: a build with overflow checks panics, a build without them
\* masks the shift amount to len % 64.
TailMask(len) == Not(Shr(USIZE_MAX, len % USIZE_BITS))

\* The `loop` of Bitmap::apply.
RECURSIVE ApplyLoop(_, _, _, _, _)
ApplyLoop(r, i, len, op, checks) ==
    IF r.panic THEN r
    ELSE IF len > USIZE_BITS
         THEN ApplyLoop(ApplyWord(r, i, op, USIZE_MAX), i + 1, len - USIZE_BITS, op, checks)
    ELSE IF len > 0
         THEN IF len >= USIZE_BITS /\ checks
              THEN [r EXCEPT !.panic = TRUE]
              ELSE ApplyWord(r, i, op, TailMask(len))
    ELSE r

\* Bitmap::apply(pos, len, f) on the word sequence bits; the result is the
\* words as the call left them and whether the call panicked.
Apply(bits, pos, len, op, checks) ==
    LET i == pos \div USIZE_BITS
        l == pos % USIZE_BITS
        r0 == [bits |-> bits, panic |-> FALSE]
    IN  IF l # 0
        THEN LET n == Min(len, USIZE_BITS - l)
                 m == Shr(Not(Shr(USIZE_MAX, n)), l)
             IN  ApplyLoop(ApplyWord(r0, i, op, m), i + 1, len - n, op, checks)
        ELSE ApplyLoop(r0, i, len, op, checks)

BitmapSet(bits, pos, len, checks) == Apply(bits, pos, len, "set", checks)
BitmapUnset(bits, pos, len, checks) == Apply(bits, pos, len, "unset", checks)
BitmapClear(n) == [i \in 1 .. n |-> Zero]

\* ------------------------------------------------------------- ChunkDecoder
NoEntry == [some |-> FALSE, bits |-> Zero, pos |-> 0]
DecoderNew == [idx |-> 1, peek |-> NoEntry, pos |-> 0]

is_empty(e) == e.pos = MAX_LEN

\* EntryLookahead::pull
pull(words, d) ==
    IF (~d.peek.some) \/ is_empty(d.peek)
    THEN IF d.idx <= Len(words)
         THEN [d EXCEPT !.peek = [some |-> TRUE, bits |-> words[d.idx], pos |-> 0],
                        !.idx = d.idx + 1]
         ELSE [d EXCEPT !.peek = NoEntry]
    ELSE d

skip_ones(e) ==
    LET n == LeadingOnes(e.bits)
    IN  [n |-> n,
         e |-> [some |-> TRUE,
                bits |-> IF n >= USIZE_BITS THEN Zero ELSE Shl(e.bits, n),
                pos |-> e.pos + n]]

skip_zeros_whole(e) ==
    IF e.bits = Zero
    THEN [n |-> MAX_LEN, e |-> [e EXCEPT !.pos = MAX_LEN]]
    ELSE LET n == LeadingZeros(e.bits)
         IN  [n |-> n,
              e |-> [some |-> TRUE, bits |-> Shl(e.bits, n), pos |-> e.pos + n]]

skip_zeros(e) ==
    IF e.bits = Zero
    THEN [n |-> MAX_LEN - e.pos, e |-> [e EXCEPT !.pos = MAX_LEN]]
    ELSE LET n == LeadingZeros(e.bits)
         IN  [n |-> n,
              e |-> [some |-> TRUE, bits |-> Shl(e.bits, n), pos |-> e.pos + n]]

\* first loop of ChunkDecoder::next
RECURSIVE SkipLeadingOnes(_, _)
SkipLeadingOnes(words, d) ==
    LET d1 == pull(words, d)
    IN  IF ~d1.peek.some THEN [end |-> TRUE, d |-> d1]
        ELSE LET r == skip_ones(d1.peek)
                 d2 == [d1 EXCEPT !.peek = r.e, !.pos = d1.pos + r.n]
             IN  IF ~is_empty(r.e) THEN [end |-> FALSE, d |-> d2]
                 ELSE SkipLeadingOnes(words, d2)

\* second loop of ChunkDecoder::next
RECURSIVE CountZeros(_, _, _)
CountZeros(words, d, len) ==
    LET d1 == pull(words, d)
    IN  IF ~d1.peek.some THEN [len |-> len, d |-> d1]
        ELSE LET r == skip_zeros(d1.peek)
                 d2 == [d1 EXCEPT !.peek = r.e, !.pos = d1.pos + r.n]
             IN  IF ~is_empty(r.e) THEN [len |-> len + r.n, d |-> d2]
                 ELSE CountZeros(words, d2, len + r.n)

\* ChunkDecoder::next: the runs decoded from d on, in order
RECURSIVE DecodeFrom(_, _)
DecodeFrom(words, d) ==
    LET s == SkipLeadingOnes(words, d)
    IN  IF s.end THEN << >>
        ELSE LET z == CountZeros(words, s.d, 0)
             IN  IF z.len = 0 THEN << >>
                 ELSE <<[pos |-> s.d.pos, len |-> z.len]>> \o DecodeFrom(words, z.d)

\* Bitmap::decode
Decode(words) == DecodeFrom(words, DecoderNew)

\* ------------------------------------------------------------------ inputs
\* Regions the caller may hand to add_memory (pairwise disjoint):
\*   1  66 blocks, a payload that spans more than one bitmap word
\*   2  6 blocks at an unaligned start
\*   3  64 bytes at a block-aligned start
\*   4  64 bytes at an unaligned start
\*   5  64 blocks, exactly one bitmap word
\*   6  16 KiB (62 blocks)
\*   7  300 bytes at a block-aligned start (one block, size / 256 / 2 = 0)
\*   8  512 bytes at a block-aligned start (one block, size / 256 / 2 = 1)
Regions ==
    << [start |-> 65536, size |-> 17408],
       [start |-> 131080, size |-> 2048],
       [start |-> 196608, size |-> 64],
       [start |-> 200008, size |-> 64],
       [start |-> 262144, size |-> 16896],
       [start |-> 393216, size |-> 16384],
       [start |-> 458752, size |-> 300],
       [start |-> 524288, size |-> 512] >>

\* The regions handed over in the general workload.
HeapRegions == {1, 2, 3, 4}

\* Layouts (size, align) the caller may request.
Layouts ==
    { [size |-> 256, align |-> 1],
      [size |-> 300, align |-> 8],
      [size |-> 1, align |-> 1024],
      [size |-> 16384, align |-> 512] }

None == -1

\* -------------------------------------------------------------------- state
VARIABLES
    chunks,         \* ChunkList: the footers, head (newest) first
    total_bytes,    \* stat.total_bytes
    avail_bytes,    \* stat.avail_bytes
    side,           \* LabByteAllocator::side
    overflow_checks,\* the build: TRUE when arithmetic overflow panics
    panicked,       \* a call panicked; the allocator is never used again
    live,           \* allocations returned by alloc and not yet deallocated
    added,          \* indices of the regions add_memory accepted
    calls,          \* number of alloc calls so far
    ret,            \* the last call and its outcome
    slice,          \* Bitmap::bits of a bitmap exercised on its own
    oplog,          \* the calls made on that bitmap, each with the words before it
    misused,        \* number of dealloc calls made with a pointer alloc never returned
    early,          \* the EarlyAllocator: chunks, total_bytes, used_bytes, used_pages
    early_ret,      \* the last call made on it and its outcome
    early_live,     \* what alloc and alloc_pages returned and was not given back
    map,            \* the HashMap: elems, len, hasher
    map_ret         \* the last insert and what it returned

vars == <<chunks, total_bytes, avail_bytes, side, overflow_checks, panicked,
          live, added, calls, ret, slice, oplog, misused,
          early, early_ret, early_live, map, map_ret>>

\* the allocator proper / the stand-alone bitmap
heap == <<chunks, total_bytes, avail_bytes, side, live, added, calls, ret>>
unit == <<slice, oplog>>
\* the objects of the other crates
apart == <<early, early_ret, early_live, map, map_ret>>

NoRet ==
    [op |-> "none", res |-> "none", ptr |-> None, size |-> 0, align |-> 1,
     policy |-> "none", fit |-> FALSE, region |-> 0, pre |-> << >>]

\* ------------------------------------------------------------ ChunkList::add
\* The carving of a region, as the locals of ChunkList::add.
AddLayout(start, size) ==
    LET end == start + size
        blocks_start == ceil_addr(start, BLOCK_SIZE)
        bitmap_ptr == floor_addr(end - WORD_BYTES * ((size \div BLOCK_SIZE) \div 2), WORD_BYTES)
        footer_ptr == floor_addr(bitmap_ptr - FOOTER_SIZE, FOOTER_ALIGN)
        blocks_end == floor_addr(footer_ptr, BLOCK_SIZE)
        blocks_size == bytes_between(blocks_start, blocks_end)
        blocks_count == blocks_size \div BLOCK_SIZE
    IN  [blocks_start |-> blocks_start, bitmap_ptr |-> bitmap_ptr,
         footer_ptr |-> footer_ptr, blocks_end |-> blocks_end,
         blocks_size |-> blocks_size, blocks_count |-> blocks_count,
         bitmap_len |-> DivCeil(blocks_count, USIZE_BITS)]

\* if footer_ptr < blocks_start { return Err(NoMemory) }
AddRejects(g) == g.footer_ptr < g.blocks_start

\* variant: the bits past blocks_count are left clear
AddBitmapBare(g, checks) == [bits |-> BitmapClear(g.bitmap_len), panic |-> FALSE]

\* The bitmap ChunkList::add writes: cleared, then the bits past blocks_count
\* set.
AddBitmap(g, checks) ==
    LET total_count == g.bitmap_len * USIZE_BITS
        count_diff == total_count - g.blocks_count
    IN  IF count_diff # 0
        THEN BitmapSet(BitmapClear(g.bitmap_len), g.blocks_count, count_diff, checks)
        ELSE [bits |-> BitmapClear(g.bitmap_len), panic |-> FALSE]

\* variant: total_bytes counts the payload only
AddStatPayload(total, avail, size, g) ==
    [total |-> total + g.blocks_size, avail |-> avail + g.blocks_size]

\* stat.total_bytes += size; stat.avail_bytes += blocks_size
AddStat(total, avail, size, g) ==
    [total |-> total + size, avail |-> avail + g.blocks_size]

add_memory(i) ==
    /\ ~panicked
    /\ i \notin added
    /\ \E g \in {AddLayout(Regions[i].start, Regions[i].size)} :
         LET call == [NoRet EXCEPT !.op = "add_memory", !.region = i,
                                   !.size = Regions[i].size]
         IN  IF AddRejects(g)
             THEN /\ ret' = [call EXCEPT !.res = "NoMemory"]
                  /\ UNCHANGED <<chunks, total_bytes, avail_bytes, added, panicked>>
             ELSE \E bm \in {AddBitmap(g, overflow_checks)} :
                  IF bm.panic
                  THEN /\ panicked' = TRUE
                       /\ ret' = [call EXCEPT !.res = "panic"]
                       /\ UNCHANGED <<chunks, total_bytes, avail_bytes, added>>
                  ELSE /\ chunks' = <<[start |-> g.blocks_start, end |-> g.footer_ptr,
                                       bitmap |-> bm.bits, count |-> g.blocks_count,
                                       bitmap_ptr |-> g.bitmap_ptr, region |-> i]>>
                                    \o chunks
                       /\ total_bytes' = AddStat(total_bytes, avail_bytes, Regions[i].size, g).total
                       /\ avail_bytes' = AddStat(total_bytes, avail_bytes, Regions[i].size, g).avail
                       /\ added' = added \cup {i}
                       /\ ret' = [call EXCEPT !.res = "Ok"]
                       /\ UNCHANGED panicked
    /\ UNCHANGED <<side, overflow_checks, live, calls, unit, misused, apart>>

\* -------------------------------------------------------------------- Chunk
\* Chunk::fits_left: the placement of layout in run c of a chunk at start
fits_left(c, start, layout) ==
    LET s == start + c.pos * BLOCK_SIZE
        e == s + c.len * BLOCK_SIZE
        data_start == ceil_addr(s, layout.align)
    IN  IF data_start + layout.size > e THEN None ELSE data_start

\* Chunk::fits_right
fits_right(c, start, layout) ==
    LET s == start + c.pos * BLOCK_SIZE
        e == s + c.len * BLOCK_SIZE
        data_start == floor_addr(e - layout.size, layout.align)
    IN  IF data_start < s THEN None ELSE data_start

\* --------------------------------------------------------------- ChunkFooter
\* .decode().find_map(|c| c.fits_left(..)): the first run that fits
FindLeft(f, layout) ==
    LET runs == Decode(f.bitmap)
        hits == {k \in 1 .. Len(runs) : fits_left(runs[k], f.start, layout) # None}
    IN  IF hits = {} THEN None
        ELSE fits_left(runs[CHOOSE k \in hits : \A j \in hits : k <= j], f.start, layout)

\* variant: the right-side search stops at the first run that fits
FindRightFirst(f, layout) ==
    LET runs == Decode(f.bitmap)
        hits == {k \in 1 .. Len(runs) : fits_right(runs[k], f.start, layout) # None}
    IN  IF hits = {} THEN None
        ELSE fits_right(runs[CHOOSE k \in hits : \A j \in hits : k <= j], f.start, layout)

\* .decode().filter_map(|c| c.fits_right(..)).last(): the last run that fits
FindRight(f, layout) ==
    LET runs == Decode(f.bitmap)
        hits == {k \in 1 .. Len(runs) : fits_right(runs[k], f.start, layout) # None}
    IN  IF hits = {} THEN None
        ELSE fits_right(runs[CHOOSE k \in hits : \A j \in hits : k >= j], f.start, layout)

\* The block range alloc_at marks for a placement at ptr.
AllocStart(f, ptr) == bytes_between(f.start, ptr) \div BLOCK_SIZE
AllocEnd(f, ptr, size) == DivCeil(bytes_between(f.start, ptr + size), BLOCK_SIZE)
AllocLen(f, ptr, size) == AllocEnd(f, ptr, size) - AllocStart(f, ptr)

\* The block range ChunkFooter::dealloc clears for ptr.
\* variant: the first block is rounded up
DeallocPosCeil(f, ptr) == DivCeil(bytes_between(f.start, ptr), BLOCK_SIZE)
DeallocPos(f, ptr) == bytes_between(f.start, ptr) \div BLOCK_SIZE
\* variant: dealloc rounds the size down to whole blocks
DeallocLenFloor(size) == size \div BLOCK_SIZE
DeallocLen(size) == DivCeil(size, BLOCK_SIZE)

\* ChunkFooter::dealloc's range test: the chunk takes ptr
OwnsExclusive(f, ptr) == ~(ptr < f.start \/ ptr >= f.end)
Owns(f, ptr) == ~(ptr < f.start \/ ptr > f.end)

\* ---------------------------------------------------------- LabByteAllocator
\* self.side = -self.side
Flip(s) == 0 - s

\* variant: the sign test of the side flag inverted
PolicyOfSwapped(s) == IF s > 0 THEN "left" ELSE "right"

\* if self.side < 0 { alloc_left } else { alloc_right }
PolicyOf(s) == IF s < 0 THEN "left" ELSE "right"

BitAt(bitmap, p) == (p % USIZE_BITS) \in bitmap[(p \div USIZE_BITS) + 1]
NBits(f) == Len(f.bitmap) * USIZE_BITS

\* Some maximal run of clear bits of some chunk holds an align-aligned
\* address with size bytes after it (read off the bits, not the decoder).
RunHolds(f, layout) ==
    \E s \in 0 .. (NBits(f) - 1) :
        /\ ~BitAt(f.bitmap, s)
        /\ (s = 0 \/ BitAt(f.bitmap, s - 1))
        /\ LET a == ceil_addr(f.start + s * BLOCK_SIZE, layout.align)
               last == DivCeil((a + layout.size) - f.start, BLOCK_SIZE)
           IN  /\ last <= NBits(f)
               /\ \A b \in s .. (last - 1) : ~BitAt(f.bitmap, b)
FitExists(layout) == \E k \in 1 .. Len(chunks) : RunHolds(chunks[k], layout)

\* alloc_at on footer f: the placement, the bitmap as the call leaves it, the
\* bytes taken off avail_bytes, and whether the call panicked (in
\* Bitmap::apply, or at the subtraction when overflow checks are on).
alloc_at(f, ptr, layout, avail, checks) ==
    LET len == AllocLen(f, ptr, layout.size)
        bm == BitmapSet(f.bitmap, AllocStart(f, ptr), len, checks)
    IN  [ptr |-> ptr, bits |-> bm.bits, sub |-> len * BLOCK_SIZE,
         panic |-> bm.panic \/ (checks /\ avail < len * BLOCK_SIZE)]

\* The `?` of alloc_left / alloc_right: no run fits, nothing is touched.
Miss(f) == [ptr |-> None, bits |-> f.bitmap, sub |-> 0, panic |-> FALSE]

\* variant: the counter is charged before the fit is known
alloc_left_eager(f, layout, avail, checks) ==
    LET ptr == FindLeft(f, layout)
    IN  IF ptr = None
        THEN [Miss(f) EXCEPT !.sub = DivCeil(layout.size, BLOCK_SIZE) * BLOCK_SIZE]
        ELSE alloc_at(f, ptr, layout, avail, checks)

alloc_left(f, layout, avail, checks) ==
    LET ptr == FindLeft(f, layout)
    IN  IF ptr = None THEN Miss(f) ELSE alloc_at(f, ptr, layout, avail, checks)

alloc_right(f, layout, avail, checks) ==
    LET ptr == FindRight(f, layout)
    IN  IF ptr = None THEN Miss(f) ELSE alloc_at(f, ptr, layout, avail, checks)

\* find_map: the first position of seq, head to tail, whose call returned
\* Some; 0 when every call returned None
RECURSIVE FirstSome(_, _)
FirstSome(res, k) ==
    IF k > Len(res) THEN 0
    ELSE IF res[k].ptr # None THEN k
    ELSE FirstSome(res, k + 1)

RECURSIVE SumSub(_, _)
SumSub(res, k) == IF k = 0 THEN 0 ELSE res[k].sub + SumSub(res, k - 1)

\* LabByteAllocator::alloc: flip the side, then call alloc_left or
\* alloc_right on the chunks head to tail until one returns Some.
alloc(layout) ==
    /\ ~panicked
    /\ calls < MaxAllocCalls
    /\ Cardinality(live) < MaxLive
    /\ side' = Flip(side)
    /\ calls' = calls + 1
    /\ \E policy \in {PolicyOf(Flip(side))}, fit \in {FitExists(layout)} :
       \E res \in {[j \in 1 .. Len(chunks) |->
                      IF policy = "left"
                      THEN alloc_left(chunks[j], layout, avail_bytes, overflow_checks)
                      ELSE alloc_right(chunks[j], layout, avail_bytes, overflow_checks)]} :
       \E k \in {FirstSome(res, 1)} :
         LET call == [NoRet EXCEPT !.op = "alloc", !.size = layout.size,
                                   !.align = layout.align, !.policy = policy,
                                   !.fit = fit]
             last == IF k = 0 THEN Len(chunks) ELSE k
         IN  /\ chunks' = [j \in 1 .. Len(chunks) |->
                             IF j <= last THEN [chunks[j] EXCEPT !.bitmap = res[j].bits]
                             ELSE chunks[j]]
             /\ IF k # 0 /\ res[k].panic
                THEN /\ panicked' = TRUE
                     /\ ret' = [call EXCEPT !.res = "panic"]
                     /\ UNCHANGED <<avail_bytes, live>>
                ELSE /\ avail_bytes' = avail_bytes - SumSub(res, last)
                     /\ UNCHANGED panicked
                     /\ IF k = 0
                        THEN /\ ret' = [call EXCEPT !.res = "NoMemory"]
                             /\ UNCHANGED live
                        ELSE /\ ret' = [call EXCEPT !.res = "Ok", !.ptr = res[k].ptr,
                                                    !.pre = chunks]
                             /\ live' = live \cup {[id |-> calls + 1, ptr |-> res[k].ptr,
                                                    size |-> layout.size,
                                                    align |-> layout.align,
                                                    sub |-> res[k].sub]}
    /\ UNCHANGED <<total_bytes, overflow_checks, added, unit, misused, apart>>

\* chunks.iter_mut().find_map(|c| c.dealloc(..)): the first chunk that takes ptr
Owner(ptr) ==
    LET hits == {k \in 1 .. Len(chunks) : Owns(chunks[k], ptr)}
    IN  IF hits = {} THEN 0 ELSE CHOOSE k \in hits : \A j \in hits : k <= j

\* ChunkFooter::dealloc on the footer f that takes ptr
chunk_dealloc(f, ptr, layout, checks) ==
    LET len == DeallocLen(layout.size)
        bm == BitmapUnset(f.bitmap, DeallocPos(f, ptr), len, checks)
    IN  [bits |-> bm.bits, add |-> len * BLOCK_SIZE, panic |-> bm.panic]

\* LabByteAllocator::dealloc(ptr, layout); freed is what the caller gives up
dealloc_call(ptr, layout, freed) ==
    /\ ~panicked
    /\ live' = live \ freed
    /\ \E k \in {Owner(ptr)} :
         LET call == [NoRet EXCEPT !.op = "dealloc", !.ptr = ptr,
                                   !.size = layout.size, !.align = layout.align]
         IN  IF k = 0
             THEN /\ panicked' = TRUE
                  /\ ret' = [call EXCEPT !.res = "panic"]
                  /\ UNCHANGED <<chunks, avail_bytes>>
             ELSE \E r \in {chunk_dealloc(chunks[k], ptr, layout, overflow_checks)} :
                    /\ chunks' = [chunks EXCEPT ![k].bitmap = r.bits]
                    /\ IF r.panic
                       THEN /\ panicked' = TRUE
                            /\ ret' = [call EXCEPT !.res = "panic"]
                            /\ UNCHANGED avail_bytes
                       ELSE /\ avail_bytes' = avail_bytes + r.add
                            /\ ret' = [call EXCEPT !.res = "Ok"]
                            /\ UNCHANGED panicked
    /\ UNCHANGED <<total_bytes, side, overflow_checks, added, calls, unit, apart>>

\* dealloc of a live allocation with the layout it was allocated with
dealloc(a) == a \in live /\ dealloc_call(a.ptr, a, {a}) /\ UNCHANGED misused

\* ----------------------------------------------------------- EarlyAllocator
\* size_of / align_of ChunkFooter of the bump allocator: next, start, b_pos,
\* p_pos, b_count
EARLY_FOOTER_SIZE == 40
EARLY_FOOTER_ALIGN == 8

\* Addresses are kept as signed representatives: a negative number stands for
\* the address 2^64 + it, which wrapping_sub gives when it goes below zero.
PtrLt(a, b) ==
    IF (a < 0) = (b < 0) THEN a < b ELSE b < 0

\* EarlyAllocator::new()
EarlyNew == [chunks |-> << >>, total_bytes |-> 0, used_bytes |-> 0, used_pages |-> 0]

NoEarlyRet ==
    [n |-> 0, op |-> "none", res |-> "none", addr |-> None, size |-> 0,
     align |-> 1, region |-> 0, pre |-> EarlyNew]

\* Regions handed to the EarlyAllocator: four pages at 0x10000, and two pages
\* at 0x2000, an address smaller than some of the sizes requested.
EarlyRegions ==
    << [start |-> 65536, size |-> 16424],
       [start |-> 8192, size |-> 8232] >>

EarlyPages == {1, 2, 8}
EarlyAligns == {4096, 8192}
EarlyLayouts == {[size |-> 64, align |-> 8], [size |-> 4096, align |-> 4096]}

\* EarlyAllocator::add_chunk
early_add_memory(i) ==
    /\ ~panicked
    /\ \A k \in 1 .. Len(early.chunks) : early.chunks[k].region # i
    /\ LET start == EarlyRegions[i].start
           size == EarlyRegions[i].size
           end == floor_addr(start + (size - EARLY_FOOTER_SIZE), EARLY_FOOTER_ALIGN)
           call == [NoEarlyRet EXCEPT !.n = early_ret.n, !.op = "add_memory",
                                      !.region = i, !.size = size, !.pre = early]
       IN  IF end < start
           THEN /\ early_ret' = [call EXCEPT !.res = "NoMemory"]
                /\ UNCHANGED early
           ELSE /\ early' = [early EXCEPT
                     !.chunks = <<[start |-> start, b_pos |-> start, p_pos |-> end,
                                   b_count |-> 0, end |-> end, region |-> i]>> \o @,
                     !.total_bytes = @ + (end - start)]
                /\ early_ret' = [call EXCEPT !.res = "Ok"]
    /\ UNCHANGED <<heap, unit, misused, overflow_checks, panicked, early_live, map, map_ret>>

\* The first chunk, head to tail, that the loop of a call does not skip
\* (`continue`); 0 if it skips them all.  skips[k] tells whether chunk k is
\* skipped.
RECURSIVE FirstTaken(_, _)
FirstTaken(skips, k) ==
    IF k > Len(skips) THEN 0
    ELSE IF skips[k] THEN FirstTaken(skips, k + 1)
    ELSE k

\* ByteAllocator::alloc of the EarlyAllocator
early_alloc(layout) ==
    /\ ~panicked
    /\ early_ret.n < MaxEarlyCalls
    /\ LET Start(c) == ceil_addr(c.b_pos, layout.align)
           Skips(c) == PtrLt(c.p_pos, Start(c) + layout.size)
           call == [NoEarlyRet EXCEPT !.n = early_ret.n + 1, !.op = "alloc",
                                      !.size = layout.size, !.align = layout.align,
                                      !.pre = early]
       IN  \E k \in {FirstTaken([j \in 1 .. Len(early.chunks) |-> Skips(early.chunks[j])], 1)} :
             IF k = 0
             THEN /\ early_ret' = [call EXCEPT !.res = "NoMemory"]
                  /\ UNCHANGED <<early, early_live>>
             ELSE \E c \in {early.chunks[k]} : \E start \in {Start(c)} :
                  /\ early' = [early EXCEPT
                        !.used_bytes = @ + ((start + layout.size) - c.b_pos),
                        !.chunks[k].b_count = @ + 1,
                        !.chunks[k].b_pos = start + layout.size]
                  /\ early_ret' = [call EXCEPT !.res = "Ok", !.addr = start]
                  /\ early_live' = early_live \cup
                        {[kind |-> "bytes", ptr |-> start, size |-> layout.size,
                          id |-> early_ret.n + 1]}
    /\ UNCHANGED <<heap, unit, misused, overflow_checks, panicked, map, map_ret>>

\* ByteAllocator::dealloc of the EarlyAllocator, for a live byte allocation
early_dealloc(a) ==
    /\ ~panicked
    /\ a \in early_live /\ a.kind = "bytes"
    /\ early_live' = early_live \ {a}
    /\ LET Skips(c) == a.ptr < c.start \/ PtrLt(c.b_pos, a.ptr + a.size)
           call == [NoEarlyRet EXCEPT !.n = early_ret.n, !.op = "dealloc",
                                      !.addr = a.ptr, !.size = a.size, !.pre = early]
       IN  \E k \in {FirstTaken([j \in 1 .. Len(early.chunks) |-> Skips(early.chunks[j])], 1)} :
             IF k = 0
             THEN /\ panicked' = TRUE
                  /\ early_ret' = [call EXCEPT !.res = "panic"]
                  /\ UNCHANGED early
             ELSE \E c \in {early.chunks[k]} :
                  /\ early' =
                       IF c.b_count - 1 = 0
                       THEN [early EXCEPT !.chunks[k].b_count = 0,
                                          !.chunks[k].b_pos = c.start,
                                          !.used_bytes = @ - (c.b_pos - c.start)]
                       ELSE [early EXCEPT !.chunks[k].b_count = @ - 1]
                  /\ early_ret' = [call EXCEPT !.res = "Ok"]
                  /\ UNCHANGED panicked
    /\ UNCHANGED <<heap, unit, misused, overflow_checks, map, map_ret>>

\* if start < chunk.p_pos { continue; }
PagesSkip(c, start) == PtrLt(start, c.p_pos)

\* PageAllocator::alloc_pages
alloc_pages(num_pages, align_pow2) ==
    /\ ~panicked
    /\ early_ret.n < MaxEarlyCalls
    /\ LET bytes == num_pages * PAGE_SIZE
           Start(c) == floor_addr(c.p_pos - bytes, align_pow2)
           Skips(c) == PagesSkip(c, Start(c))
           call == [NoEarlyRet EXCEPT !.n = early_ret.n + 1, !.op = "alloc_pages",
                                      !.size = bytes, !.align = align_pow2,
                                      !.pre = early]
       IN  \E k \in {FirstTaken([j \in 1 .. Len(early.chunks) |-> Skips(early.chunks[j])], 1)} :
             IF k = 0
             THEN /\ early_ret' = [call EXCEPT !.res = "NoMemory"]
                  /\ UNCHANGED <<early, early_live, panicked>>
             ELSE \E c \in {early.chunks[k]} : \E start \in {Start(c)} :
                  \* chunk.p_pos.addr() - start.addr() underflows when start
                  \* is above p_pos
                  IF overflow_checks /\ PtrLt(c.p_pos, start)
                  THEN /\ panicked' = TRUE
                       /\ early_ret' = [call EXCEPT !.res = "panic"]
                       /\ UNCHANGED <<early, early_live>>
                  ELSE /\ early' = [early EXCEPT
                             !.used_bytes = @ + (c.p_pos - start),
                             !.used_pages = @ + 1,
                             !.chunks[k].p_pos = start]
                       /\ early_ret' = [call EXCEPT !.res = "Ok", !.addr = start]
                       /\ early_live' = early_live \cup
                             {[kind |-> "pages", ptr |-> start, size |-> bytes,
                               id |-> early_ret.n + 1]}
                       /\ UNCHANGED panicked
    /\ UNCHANGED <<heap, unit, misused, overflow_checks, map, map_ret>>

\* PageAllocator::dealloc_pages, for pages alloc_pages returned
dealloc_pages(a) ==
    /\ ~panicked
    /\ a \in early_live /\ a.kind = "pages"
    /\ early_live' = early_live \ {a}
    /\ LET Skips(c) == PtrLt(a.ptr, c.p_pos) \/ PtrLt(c.end, a.ptr + a.size)
           call == [NoEarlyRet EXCEPT !.n = early_ret.n, !.op = "dealloc_pages",
                                      !.addr = a.ptr, !.size = a.size, !.pre = early]
       IN  \E k \in {FirstTaken([j \in 1 .. Len(early.chunks) |-> Skips(early.chunks[j])], 1)} :
             IF k = 0
             THEN /\ panicked' = TRUE
                  /\ early_ret' = [call EXCEPT !.res = "panic"]
                  /\ UNCHANGED early
             ELSE /\ early' = [early EXCEPT !.used_pages = @ - 1]
                  /\ early_ret' = [call EXCEPT !.res = "Ok"]
                  /\ UNCHANGED panicked
    /\ UNCHANGED <<heap, unit, misused, overflow_checks, map, map_ret>>

\* ------------------------------------------------------------------ HashMap
\* A u64 is kept as four 16-bit limbs, lowest first, so that wrapping_mul is
\* computed at its full width.
LIMB == 65536
INITIAL_STATE == <<8997, 33826, 40164, 52210>>   \* 0xcbf2_9ce4_8422_2325
PRIME == <<435, 0, 256, 0>>                      \* 0x0100_0000_01b3

RECURSIVE Xor(_, _)
Xor(a, b) ==
    IF a = 0 /\ b = 0 THEN 0
    ELSE (((a % 2) + (b % 2)) % 2) + 2 * Xor(a \div 2, b \div 2)

\* the products a[i] * b[j] that land in limb k
RECURSIVE Column(_, _, _, _)
Column(a, b, k, i) ==
    IF i > k THEN 0 ELSE a[i] * b[k + 1 - i] + Column(a, b, k, i + 1)

RECURSIVE MulLimbs(_, _, _, _)
MulLimbs(a, b, k, carry) ==
    IF k > 4 THEN << >>
    ELSE LET t == carry + Column(a, b, k, 1)
         IN  <<t % LIMB>> \o MulLimbs(a, b, k + 1, t \div LIMB)

\* u64::wrapping_mul
wrapping_mul(a, b) == MulLimbs(a, b, 1, 0)

\* fnv_hash(hash, bytes)
RECURSIVE fnv_hash(_, _)
fnv_hash(hash, bytes) ==
    IF bytes = << >> THEN hash
    ELSE fnv_hash(wrapping_mul([hash EXCEPT ![1] = Xor(@, Head(bytes))], PRIME),
                  Tail(bytes))

\* Hash for a u8 key: Hasher::write_u8, which is write(&[key])
KeyBytes(key) == <<key>>

\* (hasher.finish() as usize) % cap
RECURSIVE ModFrom(_, _, _, _)
ModFrom(h, cap, k, r) ==
    IF k = 0 THEN r ELSE ModFrom(h, cap, k - 1, (r * LIMB + h[k]) % cap)
IndexOf(h, cap) == ModFrom(h, cap, 4, 0)

Vacant == [some |-> FALSE, key |-> 0, value |-> 0]
Occupied(key, value) == [some |-> TRUE, key |-> key, value |-> value]
NoValue == [some |-> FALSE, value |-> 0]

\* HashMap::new()
MapNew == [elems |-> << >>, len |-> 0, hasher |-> INITIAL_STATE]

NoMapRet == [n |-> 0, op |-> "none", key |-> 0, value |-> 0, res |-> NoValue, pre |-> MapNew]

\* the `loop` of really_insert: the slot the probe from i ends at
RECURSIVE Probe(_, _, _)
Probe(elems, i, key) ==
    IF elems[i + 1].some /\ elems[i + 1].key # key
    THEN Probe(elems, (i + 1) % Len(elems), key)
    ELSE i

\* key.hash(&mut self.hasher) feeds the hasher the map keeps
KeptHasher(m) == m.hasher

\* HashMap::really_insert: the map after the call and what it returns
really_insert(m, key, value) ==
    LET cap == Len(m.elems)
        h == fnv_hash(KeptHasher(m), KeyBytes(key))
        i == Probe(m.elems, IndexOf(h, cap), key)
        slot == m.elems[i + 1]
    IN  IF slot.some
        THEN [map |-> [m EXCEPT !.hasher = h, !.elems[i + 1] = Occupied(key, value)],
              res |-> [some |-> TRUE, value |-> slot.value]]
        ELSE [map |-> [m EXCEPT !.hasher = h, !.elems[i + 1] = Occupied(key, value),
                                !.len = @ + 1],
              res |-> NoValue]

\* Relocate all inserted elements: really_insert for each occupied slot of
\* the old table, in slot order
RECURSIVE Relocate(_, _, _)
Relocate(m, old, k) ==
    IF k > Len(old) THEN m
    ELSE IF old[k].some
         THEN Relocate(really_insert(m, old[k].key, old[k].value).map, old, k + 1)
         ELSE Relocate(m, old, k + 1)

\* HashMap::grow
grow(m) ==
    LET cap == Len(m.elems)
        new_cap == (IF cap = 0 THEN 1 ELSE cap) * 2
    IN  Relocate([m EXCEPT !.elems = [j \in 1 .. new_cap |-> Vacant], !.len = 0],
                 m.elems, 1)

\* HashMap::insert
insert(key, value) ==
    /\ map_ret.n < MaxInserts
    /\ \E m \in {IF map.len = Len(map.elems) THEN grow(map) ELSE map} :
       \E r \in {really_insert(m, key, value)} :
         /\ map' = r.map
         /\ map_ret' = [n |-> map_ret.n + 1, op |-> "insert", key |-> key,
                        value |-> value, res |-> r.res, pre |-> map]
    /\ UNCHANGED <<heap, unit, misused, overflow_checks, panicked,
                   early, early_ret, early_live>>

\* ------------------------------------------------------------ specification
\* LabByteAllocator::new(), in either build
Init ==
    /\ chunks = << >>
    /\ total_bytes = 0
    /\ avail_bytes = 0
    /\ side = 1
    /\ overflow_checks \in BOOLEAN
    /\ panicked = FALSE
    /\ live = {}
    /\ added = {}
    /\ calls = 0
    /\ ret = NoRet
    /\ slice = << >>
    /\ oplog = << >>
    /\ misused = 0
    /\ early = EarlyNew
    /\ early_ret = NoEarlyRet
    /\ early_live = {}
    /\ map = MapNew
    /\ map_ret = NoMapRet

AddMemory == \E i \in HeapRegions : add_memory(i)
Alloc == \E layout \in Layouts : alloc(layout)
Dealloc == \E a \in live : dealloc(a)

Next == AddMemory \/ Alloc \/ Dealloc

Spec == Init /\ [][Next]_vars

\* ------------------------------------------------- single-chunk workloads
\* The regions an allocator is initialised with when it keeps one chunk.
FillRegions == {1, 2, 5, 6, 7, 8}

\* The requests made of it: the whole payload of its chunk, and small ones.
FillLayouts ==
    {[size |-> chunks[k].count * BLOCK_SIZE, align |-> 1] : k \in 1 .. Len(chunks)}
    \cup {[size |-> 1, align |-> 1], [size |-> 128, align |-> 8]}

\* BaseAllocator::init: add_memory(start, size).unwrap() on the fresh
\* allocator (every region of FillRegions is accepted).
init(i) == chunks = << >> /\ add_memory(i)

FillInit == \E i \in FillRegions : init(i)
FillAlloc == Len(chunks) = 1 /\ \E layout \in FillLayouts : alloc(layout)

FillNext == FillInit \/ FillAlloc \/ Dealloc

SpecFill == Init /\ [][FillNext]_vars

\* ================================================================== claims
\* Helpers of the claims.
BlockOf(f, addr) == (addr - f.start) \div BLOCK_SIZE
PayloadEnd(f) == f.start + f.count * BLOCK_SIZE
ClearTracked(f) == {b \in 0 .. (f.count - 1) : ~BitAt(f.bitmap, b)}

RECURSIVE SumClear(_)
SumClear(k) == IF k = 0 THEN 0 ELSE Cardinality(ClearTracked(chunks[k])) + SumClear(k - 1)

RECURSIVE SumPayload(_)
SumPayload(k) == IF k = 0 THEN 0 ELSE chunks[k].count * BLOCK_SIZE + SumPayload(k - 1)

RECURSIVE SumSizes(_)
SumSizes(S) ==
    IF S = {} THEN 0
    ELSE LET i == CHOOSE x \in S : TRUE IN Regions[i].size + SumSizes(S \ {i})

\* A usize counter that wrapped below zero.
Wrapped(v) == v < 0

\* C1: the byte ranges [p, p+size) of the allocations returned by alloc and
\* not yet passed to dealloc are pairwise disjoint.
C1_LiveDisjoint ==
    \A a \in live : \A b \in live :
        a # b => (a.ptr + a.size <= b.ptr \/ b.ptr + b.size <= a.ptr)

\* C2: a successful alloc returns a range inside the payload of one chunk,
\* and right after the call every block the range touches has its bit set.
C2_InPayloadAndMarked ==
    (ret.op = "alloc" /\ ret.res = "Ok") =>
        \E k \in 1 .. Len(chunks) :
            /\ chunks[k].start <= ret.ptr
            /\ ret.ptr + ret.size <= PayloadEnd(chunks[k])
            /\ \A b \in BlockOf(chunks[k], ret.ptr) ..
                        BlockOf(chunks[k], ret.ptr + ret.size - 1) :
                   BitAt(chunks[k].bitmap, b)

\* C3: every pointer alloc returns is a multiple of align, and an alloc call
\* made while some free run holds an aligned placement of the layout
\* succeeds.
C3_AlignedAndSucceeds ==
    ret.op = "alloc" =>
        /\ (ret.res = "Ok" => ret.ptr % ret.align = 0)
        /\ (ret.fit => ret.res = "Ok")

\* C4: avail_bytes is 256 times the number of clear tracked bits of all
\* chunk bitmaps.
C4_AvailMatchesBitmap ==
    ~panicked => avail_bytes = BLOCK_SIZE * SumClear(Len(chunks))

\* C5: what alloc takes off avail_bytes for an allocation is what dealloc
\* gives back for it, so once every allocation has been deallocated
\* avail_bytes is back at the payload bytes add_memory gave it.
C5_BalancedPairs ==
    /\ \A a \in live : a.sub = DeallocLen(a.size) * BLOCK_SIZE
    /\ (live = {} => avail_bytes = SumPayload(Len(chunks)))

C5_Witness ==
    /\ ret.op = "dealloc" /\ ret.res = "Ok" /\ ret.size = 300
    /\ live = {} /\ calls = 2 /\ Len(chunks) >= 1

\* C6: add_memory of a region in which no whole block fits between the
\* block-aligned payload start and the footer answers NoMemory and does not
\* enter the chunk list.
NoBlockFits(i) ==
    LET g == AddLayout(Regions[i].start, Regions[i].size)
    IN  g.blocks_end <= g.blocks_start

C6_TinyRegionRejected ==
    /\ \A i \in added : ~NoBlockFits(i)
    /\ (ret.op = "add_memory" /\ NoBlockFits(ret.region)) => ret.res = "NoMemory"

\* C7: the side flag flips on every alloc call and on nothing else; the
\* k-th call is leftmost-fit for odd k and rightmost-fit for even k, so
\* one-block allocations on a single chunk take the lowest free block on odd
\* calls and the highest free block on even calls.
C7_Inv ==
    /\ side = (IF calls % 2 = 1 THEN -1 ELSE 1)
    /\ ret.op = "alloc" => ret.policy = (IF calls % 2 = 1 THEN "left" ELSE "right")

C7_Act ==
    /\ (side' # side) <=> (calls' = calls + 1)
    /\ (calls' = calls + 1) => side' = 0 - side
    /\ (/\ calls' = calls + 1 /\ Len(chunks) = 1 /\ ret'.res = "Ok"
        /\ ret'.size <= BLOCK_SIZE /\ ret'.align <= BLOCK_SIZE)
       => LET free == ClearTracked(chunks[1])
              low == CHOOSE b \in free : \A c \in free : b <= c
              high == CHOOSE b \in free : \A c \in free : b >= c
          IN  BlockOf(chunks[1], ret'.ptr) = (IF calls' % 2 = 1 THEN low ELSE high)

C7_SideAlternates == [](C7_Inv) /\ [][C7_Act]_vars

C7_Witness ==
    /\ calls = 3 /\ ret.op = "alloc" /\ ret.res = "Ok" /\ ret.size = 256
    /\ Len(chunks) = 1 /\ Cardinality(live) = 2

\* C8: an alloc call that fails with NoMemory leaves total_bytes,
\* avail_bytes, every bitmap and the chunk list as they were and flips the
\* side flag.
C8_Act ==
    (calls' = calls + 1 /\ ret'.res = "NoMemory") =>
        /\ chunks' = chunks
        /\ total_bytes' = total_bytes
        /\ avail_bytes' = avail_bytes
        /\ live' = live
        /\ side' = 0 - side

C8_FailedAllocFrame == [][C8_Act]_vars

C8_Witness ==
    /\ ret.op = "alloc" /\ ret.res = "NoMemory"
    /\ Len(chunks) >= 1 /\ live # {} /\ avail_bytes > 0

\* C9: total_bytes is the sum of the sizes of the regions add_memory
\* accepted; a rejected add_memory, alloc and dealloc leave it alone.
C9_Inv ==
    /\ total_bytes = SumSizes(added)
    /\ ret.op = "add_memory" => (ret.res = "Ok" <=> ret.region \in added)

C9_Act ==
    /\ (ret'.op = "add_memory" /\ ret'.res = "Ok" /\ added' # added)
          => total_bytes' = total_bytes + ret'.size
    /\ (added' = added) => total_bytes' = total_bytes

C9_TotalIsSumOfSizes == [](C9_Inv) /\ [][C9_Act]_vars

C9_Witness ==
    /\ ret.op = "add_memory" /\ ret.res = "NoMemory"
    /\ Cardinality(added) = 2 /\ calls >= 1

\* C10: avail_bytes never exceeds total_bytes and never wraps below zero.
C10_AvailLeTotal == ~Wrapped(avail_bytes) /\ avail_bytes <= total_bytes

\* C11: on a single chunk with n usable blocks, alloc of n*256 bytes with
\* align 1 succeeds when nothing is allocated, and while that allocation is
\* live every alloc of a positive size answers NoMemory.
FullSize == chunks[1].count * BLOCK_SIZE

C11_FillOnce ==
    (Len(chunks) = 1 /\ ret.op = "alloc") =>
        /\ (ret.size = FullSize /\ \A a \in live : a.id = calls) => ret.res = "Ok"
        /\ (\E a \in live : a.size = FullSize /\ a.id < calls) => ret.res = "NoMemory"

\* C12: on an allocator initialised with one 16 KiB region, used_bytes()
\* after alloc(128, 8) and after the matching dealloc.
UsedBytesPayload == SumPayload(Len(chunks)) - avail_bytes
used_bytes == total_bytes - avail_bytes

SixteenKiB == Len(chunks) = 1 /\ added = {6} /\ total_bytes = 16384
AfterOneAlloc ==
    /\ SixteenKiB /\ ret.op = "alloc" /\ ret.res = "Ok"
    /\ ret.size = 128 /\ ret.align = 8
    /\ \A a \in live : a.id = calls
AfterMatchingDealloc ==
    /\ SixteenKiB /\ ret.op = "dealloc" /\ ret.res = "Ok"
    /\ ret.size = 128 /\ ret.align = 8 /\ live = {}

Overhead == total_bytes - SumPayload(Len(chunks))

MisuseRegions == {2, 3}
ForeignPtrs == {1024, 131080, 131328, 133064, 133065, 196608}
ForeignLayouts == {[size |-> 1, align |-> 1], [size |-> 512, align |-> 1]}
MisuseLayouts == {[size |-> 256, align |-> 1], [size |-> 1, align |-> 1024]}

MisuseAddMemory == \E i \in MisuseRegions : add_memory(i)
MisuseAlloc == \E layout \in MisuseLayouts : alloc(layout)

ForeignDealloc ==
    /\ misused < MaxMisuse
    /\ misused' = misused + 1
    /\ \E ptr \in ForeignPtrs, layout \in ForeignLayouts : dealloc_call(ptr, layout, {})

MisuseNext == MisuseAddMemory \/ MisuseAlloc \/ Dealloc \/ ForeignDealloc

SpecMisuse == Init /\ [][MisuseNext]_vars

\* C13: dealloc with a pointer outside [start, footer address] of every chunk
\* aborts (NotAllocated) with every bitmap and avail_bytes untouched; any
\* other pointer is handled by the first chunk, head to tail, whose
\* [start, footer address] holds it, and no other chunk's bitmap changes.
Holds(f, ptr) == f.start <= ptr /\ ptr <= f.end
Outside(ptr) == \A k \in 1 .. Len(chunks) : ~Holds(chunks[k], ptr)
FirstHolding(ptr) ==
    CHOOSE k \in 1 .. Len(chunks) :
        Holds(chunks[k], ptr) /\ \A j \in 1 .. (k - 1) : ~Holds(chunks[j], ptr)

C13_Act ==
    ret'.op = "dealloc" =>
        IF Outside(ret'.ptr)
        THEN /\ ret'.res = "panic" /\ panicked'
             /\ chunks' = chunks
             /\ avail_bytes' = avail_bytes
        ELSE LET k == FirstHolding(ret'.ptr)
                 f == chunks[k]
                 len == DivCeil(ret'.size, BLOCK_SIZE)
                 bm == BitmapUnset(f.bitmap, (ret'.ptr - f.start) \div BLOCK_SIZE,
                                   len, overflow_checks)
             IN  /\ Len(chunks') = Len(chunks)
                 /\ \A j \in 1 .. Len(chunks) : j # k => chunks'[j] = chunks[j]
                 /\ chunks'[k].bitmap = bm.bits
                 /\ ret'.res = (IF bm.panic THEN "panic" ELSE "Ok")
                 /\ ~bm.panic => avail_bytes' = avail_bytes + len * BLOCK_SIZE

C13_DeallocAttribution == [][C13_Act]_vars

C13_Witness ==
    /\ ret.op = "dealloc" /\ ret.res = "panic" /\ panicked
    /\ Len(chunks) = 2 /\ Outside(ret.ptr) /\ live # {}

\* ------------------------------------------------- the bitmap on its own
\* Bitmap and ChunkDecoder exercised as in their unit tests: a bitmap over a
\* slice of one or two words, built from words that are all zero, all one,
\* start with ones, end with ones, or have isolated ones.
WordPatterns == {Zero, USIZE_MAX, 0 .. 4, 60 .. 63, {10, 40}}
SliceLens == {1, 2}
Slices == UNION {[1 .. n -> WordPatterns] : n \in SliceLens}

\* The ranges <<pos, len>> passed to set and unset: empty, inside a word (as
\* in the test bitmap_set), up to a word boundary, a whole word, from inside
\* one word to the end of the next, the second word, both words, and across
\* the boundary (as in bitmap_set).
Ranges == {<<0, 0>>, <<5, 10>>, <<5, 59>>, <<0, 64>>, <<5, 123>>, <<64, 64>>,
           <<0, 128>>, <<62, 10>>}

TotalBits(bits) == Len(bits) * USIZE_BITS
LastOp == oplog[Len(oplog)]

\* Bitmap::new over a slice
BitsNew ==
    /\ slice = << >>
    /\ slice' \in Slices
    /\ UNCHANGED <<heap, overflow_checks, panicked, oplog, misused, apart>>

bits_apply(op, pos, len) ==
    /\ slice # << >> /\ ~panicked
    /\ Len(oplog) < MaxOps
    /\ pos + len <= TotalBits(slice)
    /\ \E r \in {Apply(slice, pos, len, op, overflow_checks)} :
         /\ slice' = r.bits
         /\ panicked' = r.panic
    /\ oplog' = Append(oplog, [op |-> op, pos |-> pos, len |-> len, pre |-> slice])
    /\ UNCHANGED <<heap, overflow_checks, misused, apart>>

BitsSet == \E r \in Ranges : bits_apply("set", r[1], r[2])
BitsUnset == \E r \in Ranges : bits_apply("unset", r[1], r[2])

\* set(run.pos, run.len) for each decoded run, in order, until one panics
RECURSIVE SetRuns(_, _, _, _)
SetRuns(r, runs, k, checks) ==
    IF k > Len(runs) \/ r.panic THEN r
    ELSE SetRuns(BitmapSet(r.bits, runs[k].pos, runs[k].len, checks), runs, k + 1, checks)

\* Decode the bitmap and rebuild it with set over each run, on a cleared
\* bitmap of the same length.
BitsRebuild ==
    /\ slice # << >> /\ ~panicked
    /\ Len(oplog) < MaxOps
    /\ \E r \in {SetRuns([bits |-> BitmapClear(Len(slice)), panic |-> FALSE],
                         Decode(slice), 1, overflow_checks)} :
         /\ slice' = r.bits
         /\ panicked' = r.panic
    /\ oplog' = Append(oplog, [op |-> "rebuild", pos |-> 0, len |-> 0, pre |-> slice])
    /\ UNCHANGED <<heap, overflow_checks, misused, apart>>

BitsNext == BitsNew \/ BitsSet \/ BitsUnset \/ BitsRebuild

SpecBits == Init /\ [][BitsNext]_vars

\* C14: set(pos, len) sets exactly the bits [pos, pos+len), unset(pos, len)
\* clears exactly those, every other bit keeps its value, and the call
\* completes (no shift by the full word width), for every pos + len within
\* the bitmap.
InRange(p, pos, len) == pos <= p /\ p < pos + len

C14_SetExact ==
    (oplog # << >> /\ LastOp.op \in {"set", "unset"}) =>
        /\ ~panicked
        /\ Len(slice) = Len(LastOp.pre)
        /\ \A p \in 0 .. (TotalBits(slice) - 1) :
             BitAt(slice, p) <=>
                 IF InRange(p, LastOp.pos, LastOp.len)
                 THEN LastOp.op = "set"
                 ELSE BitAt(LastOp.pre, p)

\* C15: the decoder yields finitely many runs with len >= 1 and strictly
\* increasing pos, the runs are pairwise disjoint, and together they cover
\* exactly the zero bits of the bitmap, across word boundaries and over
\* all-one and all-zero words.
RunsOf(bits) == Decode(bits)

C15_DecodeZeroRuns ==
    \A runs \in {RunsOf(slice)} : \A n \in {Len(runs)} :
        /\ n <= TotalBits(slice)
        /\ \A i \in 1 .. n : runs[i].len >= 1 /\ runs[i].pos >= 0
        /\ \A i, j \in 1 .. n : i < j =>
              /\ runs[i].pos < runs[j].pos
              /\ runs[i].pos + runs[i].len <= runs[j].pos
        /\ \A i \in 1 .. n : runs[i].pos + runs[i].len <= TotalBits(slice)
        /\ \A p \in 0 .. (TotalBits(slice) - 1) :
              ~BitAt(slice, p) <=>
                  \E i \in 1 .. n : InRange(p, runs[i].pos, runs[i].len)

\* leading ones, then a run that continues across the word boundary, then
\* runs between isolated ones and up to the end of the last word
C15_Witness ==
    /\ Len(slice) = 2 /\ slice[1] = (0 .. 4) /\ slice[2] = {10, 40}
    /\ RunsOf(slice) = <<[pos |-> 5, len |-> 69], [pos |-> 75, len |-> 29],
                         [pos |-> 105, len |-> 23]>>

\* C16: for every bitmap and every pos + len within it, set(pos, len)
\* followed by unset(pos, len) completes and leaves the bitmap as it was.
C16_SetUnsetIdentity ==
    LET n == Len(oplog)
    IN  /\ (n >= 1 /\ LastOp.op = "set") => ~panicked
        /\ (n >= 2 /\ oplog[n - 1].op = "set" /\ LastOp.op = "unset"
              /\ oplog[n - 1].pos = LastOp.pos /\ oplog[n - 1].len = LastOp.len)
             => ~panicked /\ slice = oplog[n - 1].pre

\* C17: decoding a bitmap and applying set over each run to an all-zero
\* bitmap of the same length gives the bitwise complement of the bitmap,
\* including when a run is 64 bits long or a multiple of it.
C17_RebuildComplement ==
    (oplog # << >> /\ LastOp.op = "rebuild") =>
        /\ ~panicked
        /\ Len(slice) = Len(LastOp.pre)
        /\ \A i \in 1 .. Len(slice) : slice[i] = Not(LastOp.pre[i])

\* The maximal runs of clear bits of a bitmap, read off the bits.
RECURSIVE RunEnd(_, _, _)
RunEnd(bitmap, p, n) == IF p < n /\ ~BitAt(bitmap, p) THEN RunEnd(bitmap, p + 1, n) ELSE p

FreeRuns(f) ==
    {[pos |-> s, end |-> RunEnd(f.bitmap, s, NBits(f))] :
        s \in {p \in 0 .. (NBits(f) - 1) :
                 ~BitAt(f.bitmap, p) /\ (p = 0 \/ BitAt(f.bitmap, p - 1))}}

RunStartAddr(f, r) == f.start + r.pos * BLOCK_SIZE
RunEndAddr(f, r) == f.start + r.end * BLOCK_SIZE

\* The candidate of a run under a policy, and whether the run takes it.
Candidate(policy, f, r, size, align) ==
    IF policy = "left"
    THEN ((RunStartAddr(f, r) + align - 1) \div align) * align
    ELSE ((RunEndAddr(f, r) - size) \div align) * align

RunFits(policy, f, r, size, align) ==
    IF policy = "left"
    THEN Candidate(policy, f, r, size, align) + size <= RunEndAddr(f, r)
    ELSE Candidate(policy, f, r, size, align) >= RunStartAddr(f, r)

\* C18: within the chunk an allocation is placed in, a left alloc takes the
\* lowest free run that fits, at ceil(run_start, align); a right alloc takes
\* the highest free run that fits, at floor(run_end - size, align); a run
\* fits unless the candidate ends past run_end (left) or starts before
\* run_start (right).
C18_FirstOrLastFit ==
    (ret.op = "alloc" /\ ret.res = "Ok") =>
        \E k \in 1 .. Len(ret.pre) :
            /\ Holds(ret.pre[k], ret.ptr)
            /\ \A f \in {ret.pre[k]} : \A runs \in {FreeRuns(f)} :
               \A fitting \in {{r \in runs : RunFits(ret.policy, f, r, ret.size, ret.align)}} :
                 \E r \in fitting :
                    /\ \A q \in fitting :
                          IF ret.policy = "left" THEN r.pos <= q.pos ELSE r.pos >= q.pos
                    /\ ret.ptr = Candidate(ret.policy, f, r, ret.size, ret.align)

\* a right alloc that had two free runs to choose from, both fitting
C18_Witness ==
    /\ ret.op = "alloc" /\ ret.res = "Ok" /\ ret.policy = "right"
    /\ \E k \in 1 .. Len(ret.pre) :
          /\ Holds(ret.pre[k], ret.ptr)
          /\ Cardinality({r \in FreeRuns(ret.pre[k]) :
                            RunFits("right", ret.pre[k], r, ret.size, ret.align)}) >= 2

\* C19: add_memory pushes the new chunk at the head of the list; alloc walks
\* the chunks newest first, so an allocation lands in an older chunk only
\* when no newer chunk has a run that fits on the current side; and a
\* successful alloc changes the bitmap of exactly one chunk.
C19_HeadPush ==
    (ret'.op = "add_memory" /\ ret'.res = "Ok") =>
        /\ Len(chunks') = Len(chunks) + 1
        /\ chunks'[1].region = ret'.region
        /\ \A j \in 1 .. Len(chunks) : chunks'[j + 1] = chunks[j]

C19_NewerChunksFull ==
    (ret.op = "alloc" /\ ret.res = "Ok") =>
        \E k \in 1 .. Len(ret.pre) :
            /\ Holds(ret.pre[k], ret.ptr)
            /\ \A j \in 1 .. (k - 1) : \A r \in FreeRuns(ret.pre[j]) :
                  ~RunFits(ret.policy, ret.pre[j], r, ret.size, ret.align)

C19_OneBitmapChanged ==
    (ret.op = "alloc" /\ ret.res = "Ok") =>
        /\ Len(chunks) = Len(ret.pre)
        /\ Cardinality({j \in 1 .. Len(chunks) : chunks[j].bitmap # ret.pre[j].bitmap}) = 1

C19_NewestFirst ==
    /\ [][C19_HeadPush]_vars
    /\ [](C19_NewerChunksFull)
    /\ [](C19_OneBitmapChanged)

\* C20: for every pointer p alloc returned, on either side and for any
\* alignment, the blocks dealloc(p, layout) clears,
\* [floor((p-start)/B), floor((p-start)/B) + ceil(size/B)), are the blocks
\* [floor((p-start)/B), ceil((p+size-start)/B)) alloc set, so a dealloc that
\* follows its alloc puts the chunk bitmaps back as they were before it.
C20_SameRange ==
    \A a \in live : \A k \in 1 .. Len(chunks) :
        Holds(chunks[k], a.ptr) =>
            LET off == a.ptr - chunks[k].start
            IN  (off \div BLOCK_SIZE) + DivCeil(a.size, BLOCK_SIZE)
                    = DivCeil(off + a.size, BLOCK_SIZE)

C20_Undo ==
    (ret.op = "alloc" /\ ret.res = "Ok" /\ ret'.op = "dealloc"
        /\ ret'.ptr = ret.ptr /\ ret'.size = ret.size) =>
        /\ ret'.res = "Ok"
        /\ chunks' = ret.pre

C20_DeallocRestores == [](C20_SameRange) /\ [][C20_Undo]_vars

\* a right-side allocation at a pointer inside a block, deallocated again
C20_Witness ==
    /\ ret.op = "dealloc" /\ ret.res = "Ok" /\ ret.size = 300 /\ calls = 2
    /\ \E k \in 1 .. Len(chunks) :
          /\ Holds(chunks[k], ret.ptr)
          /\ (ret.ptr - chunks[k].start) % BLOCK_SIZE # 0

\* C21: for every accepted region the bitmap words
\* [bitmap_ptr, bitmap_ptr + 8 * bitmap_len) lie inside [start, start + size)
\* and above the footer, and the footer lies at or above the end of the
\* payload, small regions included.
RegionEnd(f) == Regions[f.region].start + Regions[f.region].size
BitmapEnd(f) == f.bitmap_ptr + WORD_BYTES * Len(f.bitmap)

C21_BitmapInsideRegion ==
    \A k \in 1 .. Len(chunks) :
        LET f == chunks[k]
        IN  /\ Regions[f.region].start <= f.start
            /\ PayloadEnd(f) <= f.end
            /\ f.end + FOOTER_SIZE <= f.bitmap_ptr
            /\ BitmapEnd(f) <= RegionEnd(f)

\* C22: in every chunk the bits at positions >= block_count, up to
\* bitmap_len * 64, are set by add_memory and stay set through every alloc
\* and every dealloc of a live allocation; the decoder emits no run that
\* reaches past block_count, and no allocation lies at or beyond the end of
\* the payload.
SentinelSet(f) == \A p \in f.count .. (NBits(f) - 1) : BitAt(f.bitmap, p)

C22_Inv ==
    /\ \A k \in 1 .. Len(chunks) : \A f \in {chunks[k]} :
          /\ NBits(f) >= f.count
          /\ SentinelSet(f)
          /\ \A runs \in {Decode(f.bitmap)} : \A i \in 1 .. Len(runs) :
                runs[i].pos + runs[i].len <= f.count
    /\ \A a \in live : \E k \in 1 .. Len(chunks) :
          /\ Holds(chunks[k], a.ptr)
          /\ a.ptr < PayloadEnd(chunks[k])
          /\ a.ptr + a.size <= PayloadEnd(chunks[k])

\* C22: the sentinel tail, the decoder's runs and the live allocations stay
\* inside block_count in every state add_memory, alloc and dealloc reach.
C22_SentinelTail == [](C22_Inv)

\* the six-block chunk after its top block was allocated from the right and
\* deallocated again
C22_Witness ==
    /\ ret.op = "dealloc" /\ ret.res = "Ok" /\ calls >= 2
    /\ \E k \in 1 .. Len(chunks) :
          /\ chunks[k].count = 6
          /\ ret.ptr >= chunks[k].start + 5 * BLOCK_SIZE
          /\ ret.ptr < PayloadEnd(chunks[k])
          /\ SentinelSet(chunks[k])

\* ------------------------------------------------- the EarlyAllocator alone
EarlyAddMemory == \E i \in 1 .. Len(EarlyRegions) : early_add_memory(i)
EarlyAlloc == \E layout \in EarlyLayouts : early_alloc(layout)
EarlyDealloc == \E a \in early_live : early_dealloc(a)
AllocPages == \E num_pages \in EarlyPages, align_pow2 \in EarlyAligns : alloc_pages(num_pages, align_pow2)
DeallocPages == \E a \in early_live : dealloc_pages(a)

EarlyNext == EarlyAddMemory \/ EarlyAlloc \/ EarlyDealloc \/ AllocPages \/ DeallocPages

SpecEarly == Init /\ [][EarlyNext]_vars

\* ------------------------------------------------------- the HashMap alone
Keys == {1, 2, 3}
Values == {10, 20}

Insert == \E key \in Keys, value \in Values : insert(key, value)

MapNext == Insert

SpecMap == Init /\ [][MapNext]_vars

\* C23: alloc_pages(num_pages, align) with num_pages >= 1 succeeds whenever
\* some chunk has room between b_pos and p_pos for num_pages * PAGE_SIZE
\* bytes at that alignment; it then returns floor(p_pos - bytes, align) and
\* moves p_pos down to it; it answers NoMemory only when no chunk has room;
\* and b_pos <= p_pos in every chunk, always.
HasRoom(c, bytes, align) ==
    /\ c.p_pos >= bytes
    /\ floor_addr(c.p_pos - bytes, align) >= c.b_pos

C23_PagesFromTop ==
    /\ \A k \in 1 .. Len(early.chunks) :
          ~PtrLt(early.chunks[k].p_pos, early.chunks[k].b_pos)
    /\ early_ret.op = "alloc_pages" =>
          \A pre \in {early_ret.pre.chunks} :
          \A roomy \in {{k \in 1 .. Len(pre) : HasRoom(pre[k], early_ret.size, early_ret.align)}} :
             IF roomy = {}
             THEN early_ret.res = "NoMemory"
             ELSE /\ early_ret.res = "Ok"
                  /\ \E k \in roomy :
                        /\ early_ret.addr = floor_addr(pre[k].p_pos - early_ret.size, early_ret.align)
                        /\ early.chunks[k].p_pos = early_ret.addr

\* C24: after any sequence of insert calls the table holds at most one entry
\* per key: insert of a key already present replaces its value in place,
\* returns Some(old value) and leaves len unchanged; insert of a new key
\* returns None and adds one to len, also across grow.
SlotsOf(m, key) == {i \in 1 .. Len(m.elems) : m.elems[i].some /\ m.elems[i].key = key}
KeysOf(m) == {m.elems[i].key : i \in {j \in 1 .. Len(m.elems) : m.elems[j].some}}

C24_OneEntryPerKey ==
    /\ \A key \in Keys : Cardinality(SlotsOf(map, key)) <= 1
    /\ map.len = Cardinality(KeysOf(map))
    /\ map_ret.op = "insert" =>
          \A pre \in {map_ret.pre} : \A key \in {map_ret.key} :
             /\ \A i \in SlotsOf(map, key) : map.elems[i].value = map_ret.value
             /\ SlotsOf(map, key) # {}
             /\ KeysOf(map) = KeysOf(pre) \cup {key}
             /\ IF key \in KeysOf(pre)
                THEN /\ map_ret.res.some
                     /\ \E i \in SlotsOf(pre, key) : map_ret.res.value = pre.elems[i].value
                     /\ map.len = pre.len
                     /\ Len(pre.elems) = Len(map.elems) => SlotsOf(map, key) = SlotsOf(pre, key)
                ELSE /\ ~map_ret.res.some
                     /\ map.len = pre.len + 1

====
